---- MODULE Spec2Model ----
(***************************************************************************)
(* Model of the instance manager of chaldeploy (instance_mgmt.go): the     *)
(* registry of per-team DeploymentInstance records, the per-record mutex,  *)
(* and the CreateDeployment / DestroyDeployment operations run by          *)
(* concurrent request goroutines against a Kubernetes cluster.             *)
(*                                                                         *)
(* Strings are sequences of one-character strings.  Every statement of an  *)
(* operation that touches shared memory (the registry, a record, a mutex)  *)
(* or the cluster is one step of the goroutine that runs it.               *)
(***************************************************************************)
EXTENDS Integers, Sequences, FiniteSets, TLC

\* ---------------------------------------------------------------- bounds
\* number of request goroutines that may run operations concurrently
NProcs == 2
\* total number of CreateDeployment / DestroyDeployment calls in a behaviour
MaxOps == 3

Procs == 1..NProcs

\* team ids the HTTP front end may pass in: two ids that differ only by a
\* dash and letter case
TeamIds == { <<"T", "-", "1">>, <<"t", "1">> }

\* config.ChallengeName
ChallengeName == <<"p", "w">>

\* ------------------------------------------------------- InstanceState
Running == "running"
Destroying == "destroying"
Destroyed == "destroyed"
InstanceState == {Running, Destroying, Destroyed}

\* the connection string CreateDeployment stores in the record
CxnValue == "1.2.3.4:9999"

\* ------------------------------------------------------ string helpers
\* strings.ToLower on the characters that occur in team ids and names
LowerChar(c) ==
  CASE c = "T" -> "t"
    [] c = "P" -> "p"
    [] c = "W" -> "w"
    [] OTHER -> c

ToLower(s) == [i \in 1..Len(s) |-> LowerChar(s[i])]

\* strings.ReplaceAll(s, old, "") for a one-character old
IsNotDash(c) == c # "-"

ReplaceAllDash(s) == SelectSeq(s, IsNotDash)

\* HashString: a stable digest of the challenge name, one hex digit here
CharCode(c) ==
  CASE c = "p" -> 7
    [] c = "w" -> 14
    [] c = "t" -> 11
    [] c = "T" -> 3
    [] c = "1" -> 1
    [] c = "2" -> 2
    [] c = "-" -> 13
    [] OTHER -> 0

HexDigit(n) ==
  <<"0", "1", "2", "3", "4", "5", "6", "7", "8", "9", "a", "b", "c", "d", "e", "f">>[n + 1]

RECURSIVE SumCodes(_)
SumCodes(s) == IF s = <<>> THEN 0 ELSE CharCode(Head(s)) + SumCodes(Tail(s))

HashString(s) == <<HexDigit(SumCodes(s) % 16)>>

\* uniqName of CreateDeployment:
\* strings.ToLower(fmt.Sprintf("chaldeploy-%s-%s", HashString(ChallengeName),
\*                             strings.ReplaceAll(teamId, "-", "")))
UniqName(teamId) ==
  ToLower(<<"chaldeploy", "-">> \o HashString(ChallengeName) \o <<"-">> \o ReplaceAllDash(teamId))

\* ---------------------------------------------------------------- state
VARIABLES
  Instances,    \* im.Instances: team id -> pointer to a record, 0 when absent
  heap,         \* the DeploymentInstance records that were stored, by pointer
                \* (mu: 0 when the mutex is free, else the goroutine holding it)
  namespaces,   \* the cluster: names of the namespaces that exist
  deployments,  \* the cluster: <<namespace, name>> of the deployments that exist
  pc,           \* per goroutine: the statement it is at
  teamId,       \* per goroutine: the argument of the running call
  di,           \* per goroutine: the local pointer di
  ret,          \* per goroutine: connection string it is about to return
  err,          \* per goroutine: error it is about to return ("nil": no error)
  opsBegun,     \* number of calls begun so far
  seq,          \* TRUE while no call has begun during another call
  log,          \* the calls that returned, in order: op, team, err, ret
  calls         \* per team: cluster calls issued by calls for that team

vars == <<Instances, heap, namespaces, deployments, pc, teamId, di, ret, err,
          opsBegun, seq, log, calls>>

NoTeam == <<>>
NoCalls == [nsCreate |-> 0, depCreate |-> 0, get |-> 0, delete |-> 0,
            failed |-> 0, refused |-> 0, names |-> {}]

Init ==
  /\ Instances = [t \in TeamIds |-> 0]
  /\ heap = <<>>
  /\ namespaces = {}
  /\ deployments = {}
  /\ pc = [p \in Procs |-> "idle"]
  /\ teamId = [p \in Procs |-> NoTeam]
  /\ di = [p \in Procs |-> 0]
  /\ ret = [p \in Procs |-> ""]
  /\ err = [p \in Procs |-> "none"]
  /\ opsBegun = 0
  /\ seq = TRUE
  /\ log = <<>>
  /\ calls = [t \in TeamIds |-> NoCalls]

\* no call is running
Quiescent == \A q \in Procs : pc[q] = "idle"

\* the goroutine's call has returned: its frame is gone
Idle(p) ==
  /\ pc' = [pc EXCEPT ![p] = "idle"]
  /\ teamId' = [teamId EXCEPT ![p] = NoTeam]
  /\ di' = [di EXCEPT ![p] = 0]
  /\ ret' = [ret EXCEPT ![p] = ""]
  /\ err' = [err EXCEPT ![p] = "none"]

\* the log after a call returned
Returned(o, t, e, r) == Append(log, [op |-> o, team |-> t, err |-> e, ret |-> r])

\* ------------------------------------------------------------- registry
\* generic_map.MapOf.LoadOrStore: the existing pointer for key if there is
\* one, else store ptr and return it
LoadOrStore(m, key, ptr) ==
  IF m[key] # 0
    THEN [map |-> m, actual |-> m[key], loaded |-> TRUE]
    ELSE [map |-> [m EXCEPT ![key] = ptr], actual |-> ptr, loaded |-> FALSE]

\* generic_map.MapOf.Load
Load(m, key) == [value |-> m[key], ok |-> m[key] # 0]

\* &DeploymentInstance{AppName: uniqName, Namespace: uniqName, State: Destroyed, mu: &sync.Mutex{}}
NewInstance(uniqName) ==
  [AppName |-> uniqName, Namespace |-> uniqName, State |-> Destroyed, mu |-> 0, Cxn |-> ""]

\* the pointer a new allocation gets
NewPtr == Cardinality(DOMAIN heap) + 1

\* --------------------------------------------------------------- mutex
\* mutant: one mutex for the whole registry
CanLockGlobal(ptr) == \A r \in DOMAIN heap : heap[r].mu = 0

\* mutant: a Lock() that never waits
CanLockNoWait(ptr) == ptr \in DOMAIN heap

\* di.mu.Lock() returns only when the mutex is free
CanLock(ptr) == heap[ptr].mu = 0

Lock(p, ptr) == [heap EXCEPT ![ptr].mu = p]

Unlock(ptr, h) == [h EXCEPT ![ptr].mu = 0]

\* ------------------------------------------------------------- cluster
\* outcomes of the cluster calls: "ok", a refusal that follows from the
\* cluster's contents ("conflict": AlreadyExists / NotFound), or a failure
\* of the call itself ("error": network, API server, timeout)
NsCreateOutcomes(name) ==
  IF name \in namespaces THEN {"conflict", "error"} ELSE {"ok", "error"}

DepCreateOutcomes(ns, name) ==
  IF ns \in namespaces /\ <<ns, name>> \notin deployments
    THEN {"ok", "error"} ELSE {"conflict", "error"}

\* Namespaces().Get: found, or err != nil || namespace == nil
GetOutcomes(name) ==
  IF name \in namespaces THEN {"found", "error"} ELSE {"notfound", "error"}

DeleteOutcomes(name) ==
  IF name \in namespaces THEN {"ok", "error"} ELSE {"conflict", "error"}

\* bookkeeping of one cluster call issued on behalf of team t
Called(t, kind, name, outcome) ==
  [calls EXCEPT ![t] =
     [@ EXCEPT ![kind] = @ + 1,
               !.failed = IF outcome = "error" THEN @ + 1 ELSE @,
               !.refused = IF outcome = "conflict" THEN @ + 1 ELSE @,
               !.names = IF kind \in {"nsCreate", "depCreate"} THEN @ \cup {name} ELSE @]]

\* ------------------------------------------------------ CreateDeployment
\* mutant: the record is stored with Store, replacing the one that is there
BeginCreateStore(p, t) ==
  /\ pc[p] = "idle"
  /\ opsBegun < MaxOps
  /\ Instances' = [Instances EXCEPT ![t] = NewPtr]
  /\ heap' = (NewPtr :> NewInstance(UniqName(t))) @@ heap
  /\ di' = [di EXCEPT ![p] = NewPtr]
  /\ pc' = [pc EXCEPT ![p] = "c_lock"]
  /\ teamId' = [teamId EXCEPT ![p] = t]
  /\ ret' = [ret EXCEPT ![p] = ""]
  /\ err' = [err EXCEPT ![p] = "none"]
  /\ opsBegun' = opsBegun + 1
  /\ seq' = (seq /\ Quiescent)
  /\ UNCHANGED <<namespaces, deployments, log, calls>>

\* a request handler calls CreateDeployment(t).
\* lines 134-143: compute uniqName, build the record, LoadOrStore it
BeginCreate(p, t) ==
  /\ pc[p] = "idle"
  /\ opsBegun < MaxOps
  /\ LET r == LoadOrStore(Instances, t, NewPtr)
     IN /\ Instances' = r.map
        /\ heap' = IF r.loaded THEN heap
                   ELSE (NewPtr :> NewInstance(UniqName(t))) @@ heap
        /\ di' = [di EXCEPT ![p] = r.actual]
  /\ pc' = [pc EXCEPT ![p] = "c_lock"]
  /\ teamId' = [teamId EXCEPT ![p] = t]
  /\ ret' = [ret EXCEPT ![p] = ""]
  /\ err' = [err EXCEPT ![p] = "none"]
  /\ opsBegun' = opsBegun + 1
  /\ seq' = (seq /\ Quiescent)
  /\ UNCHANGED <<namespaces, deployments, log, calls>>

\* line 145: di.mu.Lock()
CreateLock(p) ==
  /\ pc[p] = "c_lock"
  /\ CanLock(di[p])
  /\ heap' = Lock(p, di[p])
  /\ pc' = [pc EXCEPT ![p] = "c_check"]
  /\ UNCHANGED <<Instances, namespaces, deployments, teamId, di, ret, err, opsBegun, seq, log, calls>>

\* mutant: only a Running record counts as already deployed
CreateNeededUnlessRunning(ptr) == heap[ptr].State # Running

\* line 147: if di.State == Destroyed
CreateNeeded(ptr) == heap[ptr].State = Destroyed

\* lines 147 and 167: when no create is needed, return di.Cxn, nil
CreateCheck(p) ==
  /\ pc[p] = "c_check"
  /\ IF CreateNeeded(di[p])
       THEN /\ pc' = [pc EXCEPT ![p] = "c_ns"]
            /\ UNCHANGED <<ret, err>>
       ELSE /\ ret' = [ret EXCEPT ![p] = heap[di[p]].Cxn]
            /\ err' = [err EXCEPT ![p] = "nil"]
            /\ pc' = [pc EXCEPT ![p] = "c_unlock"]
  /\ UNCHANGED <<Instances, heap, namespaces, deployments, teamId, di, opsBegun, seq, log, calls>>

\* lines 153-156: namespaceClient.Create(namespace)
CreateNamespace(p) ==
  /\ pc[p] = "c_ns"
  /\ LET name == UniqName(teamId[p])
     IN \E o \in NsCreateOutcomes(name) :
          /\ calls' = Called(teamId[p], "nsCreate", name, o)
          /\ IF o = "ok"
               THEN /\ namespaces' = namespaces \cup {name}
                    /\ pc' = [pc EXCEPT ![p] = "c_dep"]
                    /\ UNCHANGED <<ret, err>>
               ELSE /\ namespaces' = namespaces
                    /\ ret' = [ret EXCEPT ![p] = ""]
                    /\ err' = [err EXCEPT ![p] = "ns_create_failed"]
                    /\ pc' = [pc EXCEPT ![p] = "c_unlock"]
  /\ UNCHANGED <<Instances, heap, deployments, teamId, di, opsBegun, seq, log>>

\* mutant: the error of the deployment create is dropped
CreateDeploymentCallIgnoreErr(p) ==
  /\ pc[p] = "c_dep"
  /\ LET ns == heap[di[p]].Namespace
         name == heap[di[p]].AppName
     IN \E o \in DepCreateOutcomes(ns, name) :
          /\ calls' = Called(teamId[p], "depCreate", ns, o)
          /\ deployments' = IF o = "ok" THEN deployments \cup {<<ns, name>>} ELSE deployments
          /\ pc' = [pc EXCEPT ![p] = "c_set"]
          /\ UNCHANGED <<ret, err>>
  /\ UNCHANGED <<Instances, heap, namespaces, teamId, di, opsBegun, seq, log>>

\* lines 157-160: Deployments(di.Namespace).Create(deployment named di.AppName)
CreateDeploymentCall(p) ==
  /\ pc[p] = "c_dep"
  /\ LET ns == heap[di[p]].Namespace
         name == heap[di[p]].AppName
     IN \E o \in DepCreateOutcomes(ns, name) :
          /\ calls' = Called(teamId[p], "depCreate", ns, o)
          /\ IF o = "ok"
               THEN /\ deployments' = deployments \cup {<<ns, name>>}
                    /\ pc' = [pc EXCEPT ![p] = "c_set"]
                    /\ UNCHANGED <<ret, err>>
               ELSE /\ deployments' = deployments
                    /\ ret' = [ret EXCEPT ![p] = ""]
                    /\ err' = [err EXCEPT ![p] = "dep_create_failed"]
                    /\ pc' = [pc EXCEPT ![p] = "c_unlock"]
  /\ UNCHANGED <<Instances, heap, namespaces, teamId, di, opsBegun, seq, log>>

\* mutant: the connection string is not stored
CreateSetRunningNoCxn(p) ==
  /\ pc[p] = "c_set"
  /\ heap' = [heap EXCEPT ![di[p]].State = Running]
  /\ ret' = [ret EXCEPT ![p] = heap'[di[p]].Cxn]
  /\ err' = [err EXCEPT ![p] = "nil"]
  /\ pc' = [pc EXCEPT ![p] = "c_unlock"]
  /\ UNCHANGED <<Instances, namespaces, deployments, teamId, di, opsBegun, seq, log, calls>>

\* lines 163-167: di.State = Running; di.Cxn = "1.2.3.4:9999"; return di.Cxn, nil
CreateSetRunning(p) ==
  /\ pc[p] = "c_set"
  /\ heap' = [heap EXCEPT ![di[p]].State = Running, ![di[p]].Cxn = CxnValue]
  /\ ret' = [ret EXCEPT ![p] = heap'[di[p]].Cxn]
  /\ err' = [err EXCEPT ![p] = "nil"]
  /\ pc' = [pc EXCEPT ![p] = "c_unlock"]
  /\ UNCHANGED <<Instances, namespaces, deployments, teamId, di, opsBegun, seq, log, calls>>

\* mutant: the call returns without releasing the mutex
CreateUnlockForgets(p) ==
  /\ pc[p] = "c_unlock"
  /\ log' = Returned("create", teamId[p], err[p], ret[p])
  /\ Idle(p)
  /\ UNCHANGED <<Instances, heap, namespaces, deployments, opsBegun, seq, calls>>

\* line 146: defer di.mu.Unlock()
CreateUnlock(p) ==
  /\ pc[p] = "c_unlock"
  /\ heap' = Unlock(di[p], heap)
  /\ log' = Returned("create", teamId[p], err[p], ret[p])
  /\ Idle(p)
  /\ UNCHANGED <<Instances, namespaces, deployments, opsBegun, seq, calls>>

\* ----------------------------------------------------- DestroyDeployment
\* a request handler calls DestroyDeployment(t)
BeginDestroy(p, t) ==
  /\ pc[p] = "idle"
  /\ opsBegun < MaxOps
  /\ pc' = [pc EXCEPT ![p] = "d_load"]
  /\ teamId' = [teamId EXCEPT ![p] = t]
  /\ di' = [di EXCEPT ![p] = 0]
  /\ ret' = [ret EXCEPT ![p] = ""]
  /\ err' = [err EXCEPT ![p] = "none"]
  /\ opsBegun' = opsBegun + 1
  /\ seq' = (seq /\ Quiescent)
  /\ UNCHANGED <<Instances, heap, namespaces, deployments, log, calls>>

\* mutant: the missing record is reported as success
DestroyLoadNoError(p) ==
  /\ pc[p] = "d_load"
  /\ LET r == Load(Instances, teamId[p])
     IN IF ~r.ok
          THEN /\ log' = Returned("destroy", teamId[p], "nil", "")
               /\ Idle(p)
          ELSE /\ di' = [di EXCEPT ![p] = r.value]
               /\ pc' = [pc EXCEPT ![p] = "d_check"]
               /\ UNCHANGED <<teamId, ret, err, log>>
  /\ UNCHANGED <<Instances, heap, namespaces, deployments, opsBegun, seq, calls>>

\* lines 180-183: di, ok := im.Instances.Load(teamId); error when there is none
DestroyLoad(p) ==
  /\ pc[p] = "d_load"
  /\ LET r == Load(Instances, teamId[p])
     IN IF ~r.ok
          THEN /\ log' = Returned("destroy", teamId[p], "no_deployment", "")
               /\ Idle(p)
          ELSE /\ di' = [di EXCEPT ![p] = r.value]
               /\ pc' = [pc EXCEPT ![p] = "d_check"]
               /\ UNCHANGED <<teamId, ret, err, log>>
  /\ UNCHANGED <<Instances, heap, namespaces, deployments, opsBegun, seq, calls>>

\* mutant: the early return is taken for a destroyed instance instead
AlreadyDestroyingIfDestroyed(ptr) == heap[ptr].State = Destroyed

\* mutant: a record that is not Running counts as being destroyed already
AlreadyDestroyingUnlessRunning(ptr) == heap[ptr].State # Running

\* line 185: if di.State == Destroying (read without the lock)
AlreadyDestroying(ptr) == heap[ptr].State = Destroying

DestroyCheck(p) ==
  /\ pc[p] = "d_check"
  /\ IF AlreadyDestroying(di[p])
       THEN /\ log' = Returned("destroy", teamId[p], "nil", "")
            /\ Idle(p)
       ELSE /\ pc' = [pc EXCEPT ![p] = "d_lock1"]
            /\ UNCHANGED <<teamId, di, ret, err, log>>
  /\ UNCHANGED <<Instances, heap, namespaces, deployments, opsBegun, seq, calls>>

\* line 191: di.mu.Lock()
DestroyLock1(p) ==
  /\ pc[p] = "d_lock1"
  /\ CanLock(di[p])
  /\ heap' = Lock(p, di[p])
  /\ pc' = [pc EXCEPT ![p] = "d_mark"]
  /\ UNCHANGED <<Instances, namespaces, deployments, teamId, di, ret, err, opsBegun, seq, log, calls>>

\* line 192: di.State = Destroying
DestroyMark(p) ==
  /\ pc[p] = "d_mark"
  /\ heap' = [heap EXCEPT ![di[p]].State = Destroying]
  /\ pc' = [pc EXCEPT ![p] = "d_unlock1"]
  /\ UNCHANGED <<Instances, namespaces, deployments, teamId, di, ret, err, opsBegun, seq, log, calls>>

\* line 193: di.mu.Unlock()
DestroyUnlock1(p) ==
  /\ pc[p] = "d_unlock1"
  /\ heap' = Unlock(di[p], heap)
  /\ pc' = [pc EXCEPT ![p] = "d_get"]
  /\ UNCHANGED <<Instances, namespaces, deployments, teamId, di, ret, err, opsBegun, seq, log, calls>>

\* lines 199-202: client.Get(di.AppName); return nil unless the namespace was found
DestroyGet(p) ==
  /\ pc[p] = "d_get"
  /\ LET name == heap[di[p]].AppName
     IN \E o \in GetOutcomes(name) :
          /\ calls' = Called(teamId[p], "get", name, o)
          /\ IF o = "found"
               THEN /\ pc' = [pc EXCEPT ![p] = "d_lock2"]
                    /\ UNCHANGED <<teamId, di, ret, err, log>>
               ELSE /\ log' = Returned("destroy", teamId[p], "nil", "")
                    /\ Idle(p)
  /\ UNCHANGED <<Instances, heap, namespaces, deployments, opsBegun, seq>>

\* mutant: the delete is reached without taking the mutex
DestroyLock2Skipped(p) ==
  /\ pc[p] = "d_lock2"
  /\ pc' = [pc EXCEPT ![p] = "d_delete"]
  /\ UNCHANGED <<Instances, heap, namespaces, deployments, teamId, di, ret, err, opsBegun, seq, log, calls>>

\* line 205: di.mu.Lock()
DestroyLock2(p) ==
  /\ pc[p] = "d_lock2"
  /\ CanLock(di[p])
  /\ heap' = Lock(p, di[p])
  /\ pc' = [pc EXCEPT ![p] = "d_delete"]
  /\ UNCHANGED <<Instances, namespaces, deployments, teamId, di, ret, err, opsBegun, seq, log, calls>>

\* lines 210-214: client.Delete(di.Namespace, foreground propagation)
DestroyDelete(p) ==
  /\ pc[p] = "d_delete"
  /\ LET name == heap[di[p]].Namespace
     IN \E o \in DeleteOutcomes(name) :
          /\ calls' = Called(teamId[p], "delete", name, o)
          /\ IF o = "ok"
               THEN /\ namespaces' = namespaces \ {name}
                    /\ deployments' = {d \in deployments : d[1] # name}
                    /\ pc' = [pc EXCEPT ![p] = "d_set"]
                    /\ err' = err
               ELSE /\ UNCHANGED <<namespaces, deployments>>
                    /\ err' = [err EXCEPT ![p] = "delete_failed"]
                    /\ pc' = [pc EXCEPT ![p] = "d_unlock2"]
  /\ UNCHANGED <<Instances, heap, teamId, di, ret, opsBegun, seq, log>>

\* lines 216-218: di.State = Destroyed; return nil
DestroySetDestroyed(p) ==
  /\ pc[p] = "d_set"
  /\ heap' = [heap EXCEPT ![di[p]].State = Destroyed]
  /\ err' = [err EXCEPT ![p] = "nil"]
  /\ pc' = [pc EXCEPT ![p] = "d_unlock2"]
  /\ UNCHANGED <<Instances, namespaces, deployments, teamId, di, ret, opsBegun, seq, log, calls>>

\* line 206: defer di.mu.Unlock()
DestroyUnlock2(p) ==
  /\ pc[p] = "d_unlock2"
  /\ heap' = Unlock(di[p], heap)
  /\ log' = Returned("destroy", teamId[p], err[p], "")
  /\ Idle(p)
  /\ UNCHANGED <<Instances, namespaces, deployments, opsBegun, seq, calls>>

\* ------------------------------------------------------------------ next
Next ==
  \E p \in Procs :
    \/ \E t \in TeamIds : BeginCreate(p, t)
    \/ \E t \in TeamIds : BeginDestroy(p, t)
    \/ DestroyLoad(p)
    \/ CreateLock(p)
    \/ CreateCheck(p)
    \/ CreateNamespace(p)
    \/ CreateDeploymentCall(p)
    \/ CreateSetRunning(p)
    \/ CreateUnlock(p)
    \/ DestroyCheck(p)
    \/ DestroyLock1(p)
    \/ DestroyMark(p)
    \/ DestroyUnlock1(p)
    \/ DestroyGet(p)
    \/ DestroyLock2(p)
    \/ DestroyDelete(p)
    \/ DestroySetDestroyed(p)
    \/ DestroyUnlock2(p)

Spec == Init /\ [][Next]_vars

\* the next statement of the call that goroutine p is running
CallStep(p) ==
  \/ DestroyLoad(p)
  \/ CreateLock(p)
  \/ CreateCheck(p)
  \/ CreateNamespace(p)
  \/ CreateDeploymentCall(p)
  \/ CreateSetRunning(p)
  \/ CreateUnlock(p)
  \/ DestroyCheck(p)
  \/ DestroyLock1(p)
  \/ DestroyMark(p)
  \/ DestroyUnlock1(p)
  \/ DestroyGet(p)
  \/ DestroyLock2(p)
  \/ DestroyDelete(p)
  \/ DestroySetDestroyed(p)
  \/ DestroyUnlock2(p)

\* the Go scheduler runs every goroutine that can run, and every cluster
\* call returns
FairSpec == Spec /\ \A p \in Procs : WF_vars(CallStep(p))

\* ================================================================ claims
\* the record of team t, once it has one
HasRecord(t) == Instances[t] # 0
RecordOf(t) == heap[Instances[t]]

\* the last call that returned
LastReturn == log[Len(log)]

\* a call returns in this step
Returns == Len(log') = Len(log) + 1

\* the goroutine p takes this step
Steps(p) == pc'[p] # pc[p]

\* ---------------------------------------------------------------- C1
\* C1: when the only calls made are two CreateDeployment(t) for a team
\* without a record, run in any interleaving, and no cluster call failed, the
\* namespace create and the deployment create were each issued exactly once
\* and both calls returned the same connection string and no error.
C1_TwoCreates(t) ==
  /\ Quiescent
  /\ opsBegun = 2
  /\ Len(log) = 2
  /\ \A i \in 1..2 : log[i].op = "create" /\ log[i].team = t
  /\ calls[t].failed = 0

C1_ConcurrentCreateOnce ==
  \A t \in TeamIds :
    C1_TwoCreates(t) =>
      /\ calls[t].nsCreate = 1
      /\ calls[t].depCreate = 1
      /\ log[1].err = "nil" /\ log[2].err = "nil"
      /\ log[1].ret = log[2].ret
      /\ log[1].ret = RecordOf(t).Cxn

\* two overlapping creates of one team have both returned
C1_Witness ==
  \E t \in TeamIds :
    /\ C1_TwoCreates(t)
    /\ ~seq
    /\ log[1].ret = CxnValue /\ log[2].ret = CxnValue

\* ---------------------------------------------------------------- C2
\* C2: when the namespace is absent at the existence check of
\* DestroyDeployment, the call returns no error and the record is Destroyed
\* when it returns.
C2_AbsentNamespaceDestroyed ==
  [][\A p \in Procs :
       (pc[p] = "d_get" /\ Steps(p) /\ heap[di[p]].AppName \notin namespaces)
         => /\ Returns
            /\ LastReturn'.err = "nil"
            /\ heap'[di[p]].State = Destroyed]_vars

\* ---------------------------------------------------------------- C7
\* C7: DestroyDeployment for a team without a record returns an error,
\* issues no cluster call, inserts no record and changes no record.
C7_DestroyUnknownTeam ==
  [][\A p \in Procs :
       (pc[p] = "d_load" /\ Steps(p) /\ ~HasRecord(teamId[p]))
         => /\ Returns
            /\ LastReturn'.op = "destroy"
            /\ LastReturn'.team = teamId[p]
            /\ LastReturn'.err \notin {"nil", "none"}
            /\ calls' = calls
            /\ namespaces' = namespaces /\ deployments' = deployments
            /\ Instances' = Instances
            /\ heap' = heap]_vars

\* a destroy of a team without a record has returned while the other team
\* has a record
C7_Witness ==
  /\ Len(log) > 0
  /\ LastReturn.op = "destroy"
  /\ LastReturn.err = "no_deployment"
  /\ ~HasRecord(LastReturn.team)
  /\ \E t \in TeamIds : HasRecord(t)

\* ---------------------------------------------------------------- C3
\* C3: after a create of t that returned no error, then a destroy of t that
\* returned no error, the record is Destroyed; a create of t after that
\* issues the cluster create calls with the name the first create used and,
\* when they succeed, leaves the record Running.
C3_CreateDestroyCreate ==
  \A t \in TeamIds :
    ( /\ seq /\ Quiescent /\ Len(log) >= 2
      /\ log[1] = [op |-> "create", team |-> t, err |-> "nil", ret |-> CxnValue]
      /\ log[2] = [op |-> "destroy", team |-> t, err |-> "nil", ret |-> ""] )
    => /\ Len(log) = 2 => RecordOf(t).State = Destroyed
       /\ (Len(log) = 3 /\ log[3].op = "create" /\ log[3].team = t)
            => /\ calls[t].nsCreate = 2
               /\ Cardinality(calls[t].names) = 1
               /\ (calls[t].failed = 0 /\ calls[t].refused = 0)
                    => RecordOf(t).State = Running

\* ---------------------------------------------------------------- C4
\* C4: every change of a record's state is Destroyed -> Running,
\* Running -> Destroying or Destroying -> Destroyed.
LegalTransitions ==
  { <<Destroyed, Running>>, <<Running, Destroying>>, <<Destroying, Destroyed>> }

C4_LegalTransitionsOnly ==
  [][\A ptr \in DOMAIN heap :
       heap'[ptr].State # heap[ptr].State
         => <<heap[ptr].State, heap'[ptr].State>> \in LegalTransitions]_vars

\* ---------------------------------------------------------------- C5
\* C5: of two destroys of a Running team, the second begun after the first
\* returned, the second changes no state, issues no delete and returns no
\* error, and at most one delete is issued in all.
DestroyPcs ==
  {"d_load", "d_check", "d_lock1", "d_mark", "d_unlock1", "d_get", "d_lock2",
   "d_delete", "d_set", "d_unlock2"}

C5_SecondDestroyRuns(t) ==
  /\ seq /\ opsBegun = 3 /\ Len(log) = 2
  /\ log[1] = [op |-> "create", team |-> t, err |-> "nil", ret |-> CxnValue]
  /\ log[2].op = "destroy" /\ log[2].team = t
  /\ \E p \in Procs : pc[p] \in DestroyPcs /\ teamId[p] = t

C5_SecondDestroyNoOp ==
  [][\A t \in TeamIds :
       C5_SecondDestroyRuns(t)
         => /\ heap'[Instances[t]].State = heap[Instances[t]].State
            /\ calls'[t].delete = calls[t].delete
            /\ calls[t].delete <= 1
            /\ Returns => LastReturn'.err = "nil"]_vars

\* ---------------------------------------------------------------- C6
\* C6: a destroy that follows a destroy whose namespace delete failed issues
\* the namespace delete again.
C6_FailedDeleteRetried ==
  \A t \in TeamIds :
    ( /\ seq /\ Quiescent /\ Len(log) = 3
      /\ log[2] = [op |-> "destroy", team |-> t, err |-> "delete_failed", ret |-> ""]
      /\ log[3].op = "destroy" /\ log[3].team = t )
    => calls[t].delete >= 2

\* ---------------------------------------------------------------- C8
\* a cluster call of team t failed in this step
CallFailed(t) ==
  calls'[t].failed + calls'[t].refused > calls[t].failed + calls[t].refused

\* the fields of a record other than its mutex
Fields(r) == <<r.AppName, r.Namespace, r.State, r.Cxn>>

\* C8: a CreateDeployment that finds the record Running or Destroying issues
\* no cluster call, leaves the record's fields as they are and returns the
\* stored connection string and no error.
C8_CreateWhileDeployed ==
  [][\A p \in Procs :
       /\ (pc[p] = "c_check" /\ Steps(p) /\ heap[di[p]].State \in {Running, Destroying})
            => /\ pc'[p] = "c_unlock"
               /\ ret'[p] = heap[di[p]].Cxn
               /\ err'[p] = "nil"
               /\ calls' = calls
               /\ namespaces' = namespaces /\ deployments' = deployments
       /\ pc[p] \in {"c_check", "c_unlock"}
            => Fields(heap'[di[p]]) = Fields(heap[di[p]])
       /\ (pc[p] = "c_unlock" /\ Steps(p))
            => /\ Returns
               /\ LastReturn' = [op |-> "create", team |-> teamId[p],
                                 err |-> err[p], ret |-> ret[p]]
               /\ calls' = calls
               /\ namespaces' = namespaces /\ deployments' = deployments]_vars

\* a create that found the record Destroying is about to return
C8_Witness ==
  \E p \in Procs :
    /\ pc[p] = "c_unlock"
    /\ heap[di[p]].State = Destroying
    /\ err[p] = "nil"
    /\ ret[p] = heap[di[p]].Cxn

\* ---------------------------------------------------------------- C9
\* C9: a record becomes Running only in a create whose namespace create and
\* deployment create both succeeded; when either fails the create returns an
\* error, and at its return the record is Destroyed and its mutex free.
C9_RunningOnlyAfterBothCreates ==
  [][/\ \A ptr \in DOMAIN heap :
          (heap'[ptr].State = Running /\ heap[ptr].State # Running)
            => \E p \in Procs : pc[p] = "c_set" /\ di[p] = ptr /\ Steps(p)
     /\ \A p \in Procs :
          /\ (pc'[p] = "c_set" /\ Steps(p))
               => /\ pc[p] = "c_dep"
                  /\ ~CallFailed(teamId[p])
                  /\ <<heap[di[p]].Namespace, heap[di[p]].AppName>> \in deployments' \ deployments
          /\ (pc'[p] = "c_dep" /\ Steps(p))
               => /\ pc[p] = "c_ns"
                  /\ ~CallFailed(teamId[p])
                  /\ UniqName(teamId[p]) \in namespaces' \ namespaces
          /\ (pc[p] \in {"c_ns", "c_dep"} /\ Steps(p) /\ CallFailed(teamId[p]))
               => /\ pc'[p] = "c_unlock"
                  /\ err'[p] \in {"ns_create_failed", "dep_create_failed"}
                  /\ heap'[di[p]].State = Destroyed
          /\ (pc[p] = "c_unlock" /\ Steps(p) /\ err[p] # "nil")
               => /\ Returns
                  /\ LastReturn'.err \in {"ns_create_failed", "dep_create_failed"}
                  /\ heap'[di[p]].State = Destroyed
                  /\ heap'[di[p]].mu = 0]_vars

\* a create whose deployment create failed has returned: the namespace is
\* there, the record is Destroyed and unlocked
C9_Witness ==
  /\ Len(log) > 0
  /\ LastReturn.op = "create"
  /\ LastReturn.err = "dep_create_failed"
  /\ RecordOf(LastReturn.team).State = Destroyed
  /\ RecordOf(LastReturn.team).mu = 0
  /\ RecordOf(LastReturn.team).Namespace \in namespaces

\* --------------------------------------------------------------- C10
\* C10: when the namespace delete of a destroy fails, the destroy returns an
\* error, and at its return the record's mutex is free and its state is
\* Destroying.
C10_FailedDeleteLeavesDestroying ==
  [][\A p \in Procs :
       /\ (pc[p] = "d_delete" /\ Steps(p) /\ CallFailed(teamId[p]))
            => /\ pc'[p] = "d_unlock2"
               /\ err'[p] = "delete_failed"
               /\ heap'[di[p]].State = Destroying
       /\ (pc[p] = "d_unlock2" /\ Steps(p) /\ err[p] = "delete_failed")
            => /\ Returns
               /\ LastReturn'.err = "delete_failed"
               /\ heap'[di[p]].mu = 0
               /\ heap'[di[p]].State = Destroying]_vars

\* --------------------------------------------------------------- C11
CreatePcs == {"c_lock", "c_check", "c_ns", "c_dep", "c_set", "c_unlock"}

\* the registry and the records: one stored record per team that has one,
\* and every running call of a team works on that record
C11_OneRecordEach ==
  /\ \A t \in TeamIds : HasRecord(t) => Instances[t] \in DOMAIN heap
  /\ \A t1, t2 \in TeamIds :
       (HasRecord(t1) /\ t1 # t2) => Instances[t1] # Instances[t2]
  /\ Cardinality(DOMAIN heap) = Cardinality({t \in TeamIds : HasRecord(t)})
  /\ \A p \in Procs :
       /\ pc[p] \in CreatePcs => (di[p] # 0 /\ di[p] = Instances[teamId[p]])
       /\ (pc[p] \in DestroyPcs /\ di[p] # 0) => di[p] = Instances[teamId[p]]

\* C11: the registry holds at most one record per team id, a record once
\* inserted is never removed or replaced, and concurrent creates of one new
\* team id all work on, and lock, the same record.
C11_OneRecordPerTeam ==
  /\ []C11_OneRecordEach
  /\ [][/\ \A t \in TeamIds : HasRecord(t) => Instances'[t] = Instances[t]
        /\ DOMAIN heap \subseteq DOMAIN heap']_vars

\* two creates of a team id without a record overlap: one holds the lock of
\* the record, the other waits for the lock of the same record
C11_Witness ==
  \E p, q \in Procs :
    /\ p # q
    /\ log = <<>> /\ opsBegun = 2
    /\ teamId[p] = teamId[q]
    /\ pc[p] = "c_ns" /\ pc[q] = "c_lock"
    /\ di[p] = di[q]
    /\ heap[di[p]].mu = p

\* --------------------------------------------------------------- C12
\* C12: the resource name is a function of the challenge name and the team
\* id alone, and two distinct team ids, also ids that differ only by dashes
\* or letter case, get distinct resource names.
C12_DistinctIdsDistinctNames ==
  /\ \A t \in TeamIds :
       /\ calls[t].names \subseteq {UniqName(t)}
       /\ HasRecord(t) => (RecordOf(t).AppName = UniqName(t) /\ RecordOf(t).Namespace = UniqName(t))
  /\ \A t1, t2 \in TeamIds :
       (t1 # t2 /\ HasRecord(t1) /\ HasRecord(t2))
         => RecordOf(t1).Namespace # RecordOf(t2).Namespace

\* --------------------------------------------------------------- C13
\* C13: while a team's record is Running, the namespace created for that
\* team exists in the cluster.
C13_RunningHasNamespace ==
  \A t \in TeamIds :
    (HasRecord(t) /\ RecordOf(t).State = Running)
      => RecordOf(t).Namespace \in namespaces

C15_HalfCreatedThenDestroy(t) ==
  /\ seq /\ Quiescent /\ opsBegun = 2 /\ Len(log) = 2
  /\ log[1] = [op |-> "create", team |-> t, err |-> "dep_create_failed", ret |-> ""]
  /\ log[2].op = "destroy" /\ log[2].team = t
  /\ calls[t].failed + calls[t].refused = 1

\* C15: a destroy that follows a create which created the namespace and
\* failed to create the deployment returns no error, deletes the namespace
\* and leaves the record Destroyed, when its cluster calls succeed.
C15_DestroyHalfCreated ==
  \A t \in TeamIds :
    C15_HalfCreatedThenDestroy(t)
      => /\ log[2].err = "nil"
         /\ calls[t].delete = 1
         /\ RecordOf(t).Namespace \notin namespaces
         /\ RecordOf(t).State = Destroyed
         /\ RecordOf(t).mu = 0

\* the half-created instance was destroyed
C15_Witness ==
  \E t \in TeamIds :
    /\ C15_HalfCreatedThenDestroy(t)
    /\ calls[t].nsCreate = 1 /\ calls[t].depCreate = 1 /\ calls[t].get = 1
    /\ log[2].err = "nil"
    /\ RecordOf(t).State = Destroyed

\* --------------------------------------------------------------- C16
\* the team whose call takes this step, when goroutine p takes it
ActingTeam(p) == IF pc[p] = "idle" THEN teamId'[p] ELSE teamId[p]

\* C16: a call that cannot take its next step is waiting for a mutex held by
\* a call of the same team; and a step of a call of one team leaves the
\* registry entry and the record (State, Cxn, mu) of every other team as
\* they are.
C16_TeamsIndependent ==
  /\ [](\A p \in Procs :
          (pc[p] # "idle" /\ ~ENABLED CallStep(p))
            => \E q \in Procs \ {p} :
                 /\ pc[q] # "idle"
                 /\ teamId[q] = teamId[p]
                 /\ heap[di[p]].mu = q)
  /\ [][\A p \in Procs : Steps(p) =>
          \A t \in TeamIds \ {ActingTeam(p)} :
            /\ Instances'[t] = Instances[t]
            /\ HasRecord(t) => heap'[Instances[t]] = heap[Instances[t]]]_vars

\* calls of the two teams are inside their critical sections at once, each
\* holding its own record's mutex
C16_Witness ==
  \E p, q \in Procs :
    /\ teamId[p] # teamId[q]
    /\ pc[p] = "c_ns" /\ pc[q] = "d_delete"
    /\ di[p] # di[q]
    /\ heap[di[p]].mu = p /\ heap[di[q]].mu = q

\* --------------------------------------------------------------- C17
\* the calls made so far are one CreateDeployment(t), which returned the
\* connection string before any other call returned, and DestroyDeployment(t)
\* calls, which took the record's mutex only after that create released it
C17_DestroysOfRunning(t) ==
  /\ Len(log) >= 1
  /\ log[1] = [op |-> "create", team |-> t, err |-> "nil", ret |-> CxnValue]
  /\ calls[t].nsCreate = 1 /\ calls[t].depCreate = 1
  /\ \A i \in 2..Len(log) : log[i].op = "destroy" /\ log[i].team = t
  /\ \A p \in Procs : pc[p] # "idle" => (pc[p] \in DestroyPcs /\ teamId[p] = t)

\* C17: the DestroyDeployment calls made for one Running instance, however
\* they interleave, issue at most one namespace delete between them.
C17_AtMostOneDelete ==
  \A t \in TeamIds : C17_DestroysOfRunning(t) => calls[t].delete <= 1

\* --------------------------------------------------------------- C18
\* the statements between a Lock and its Unlock
LockHeldPcs ==
  {"c_check", "c_ns", "c_dep", "c_set", "c_unlock",
   "d_mark", "d_unlock1", "d_delete", "d_set", "d_unlock2"}

\* the cluster create calls and the cluster delete call
ClusterWritePcs == {"c_ns", "c_dep", "d_delete"}

\* C18: a call that is between Lock and Unlock is the one holder of its
\* record's mutex; no two calls of one team are at a cluster create or delete
\* call at once; and a step that changes a record's State or Cxn is taken by
\* the call that holds the record's mutex.
C18_LockProtectsRecord ==
  /\ [](/\ \A p \in Procs : pc[p] \in LockHeldPcs => heap[di[p]].mu = p
        /\ \A p, q \in Procs :
             (p # q /\ pc[p] \in LockHeldPcs /\ pc[q] \in LockHeldPcs)
               => di[p] # di[q]
        /\ \A p, q \in Procs :
             (p # q /\ pc[p] \in ClusterWritePcs /\ pc[q] \in ClusterWritePcs)
               => teamId[p] # teamId[q])
  /\ [][\A p \in Procs : Steps(p) =>
          \A ptr \in DOMAIN heap :
            (heap'[ptr].State # heap[ptr].State \/ heap'[ptr].Cxn # heap[ptr].Cxn)
              => heap[ptr].mu = p]_vars

\* a destroy is at its delete call, holding the mutex, while a create of the
\* same team waits for it
C18_Witness ==
  \E p, q \in Procs :
    /\ p # q
    /\ teamId[p] = teamId[q]
    /\ pc[p] = "d_delete" /\ pc[q] = "c_lock"
    /\ di[p] = di[q]
    /\ heap[di[p]].mu = p

\* --------------------------------------------------------------- C19
\* C19: the step of a DestroyDeployment call that reads State = Destroying at
\* line 185 is the call's return with a nil error: it is taken whoever holds
\* the mutex, and it changes neither the record nor the registry, issues no
\* cluster call and leaves the cluster as it is.
C19_DestroyingReturnsAtOnce ==
  /\ [](\A p \in Procs :
          (pc[p] = "d_check" /\ heap[di[p]].State = Destroying)
            => ENABLED DestroyCheck(p))
  /\ [][\A p \in Procs :
          (pc[p] = "d_check" /\ Steps(p) /\ heap[di[p]].State = Destroying)
            => /\ pc'[p] = "idle"
               /\ Returns
               /\ LastReturn' = [op |-> "destroy", team |-> teamId[p],
                                 err |-> "nil", ret |-> ""]
               /\ heap' = heap
               /\ Instances' = Instances
               /\ calls' = calls
               /\ namespaces' = namespaces
               /\ deployments' = deployments]_vars

\* after a create that returned the connection string, a destroy marked the
\* record Destroying and still holds the mutex of lines 191-193: a second
\* destroy has returned nil meanwhile, and no cluster call was made for it
C19_Witness ==
  \E q \in Procs :
    /\ pc[q] = "d_unlock1"
    /\ heap[di[q]].mu = q
    /\ heap[di[q]].State = Destroying
    /\ opsBegun = 3
    /\ Len(log) = 2
    /\ log[1] = [op |-> "create", team |-> teamId[q], err |-> "nil", ret |-> CxnValue]
    /\ log[2] = [op |-> "destroy", team |-> teamId[q], err |-> "nil", ret |-> ""]
    /\ calls[teamId[q]].get = 0
    /\ calls[teamId[q]].delete = 0

\* --------------------------------------------------------------- C20
\* no call of team t is running
NoneInFlight(t) == \A p \in Procs : pc[p] # "idle" => teamId[p] # t

\* C20: when every goroutine that can take a step takes one in the end and
\* every cluster call returns, every CreateDeployment and DestroyDeployment
\* call returns; while calls are running one of them can take a step; and
\* the mutex of a team's record is free whenever no call of the team is
\* running.
C20_CallsReturnLocksFreed ==
  /\ \A p \in Procs : (pc[p] # "idle") ~> (pc[p] = "idle")
  /\ [](~Quiescent => \E p \in Procs : ENABLED CallStep(p))
  /\ [](\A t \in TeamIds :
          (HasRecord(t) /\ NoneInFlight(t)) => RecordOf(t).mu = 0)

\* three calls that overlapped, on both teams, have all returned, and the
\* mutexes of both records are free
C20_Witness ==
  /\ Quiescent
  /\ ~seq
  /\ Len(log) = 3
  /\ \A t \in TeamIds : HasRecord(t) /\ RecordOf(t).mu = 0
  /\ \E i, j \in 1..3 : log[i].team # log[j].team
====
